---- MODULE Spec2Model ----
(***************************************************************************)
(* Model of catalyst's Bittrex exchange gateway                            *)
(* (catalyst/exchange/bittrex/bittrex.py) and of the bundle utilities      *)
(* (catalyst/exchange/bundle_utils.py): get_adj_dates and get_bcolz_chunk. *)
(*                                                                         *)
(* Every gateway operation is one action.  What the remote exchange        *)
(* answers (or that the transport raises) is an input of the action.  The  *)
(* action records, for the operation just run, the ordered log of the      *)
(* rate-limiter and network calls it made and the outcome the caller sees. *)
(***************************************************************************)
EXTENDS Integers, Sequences, FiniteSets, TLC

VARIABLES
    op,       \* name of the operation that ran last ("" before any)
    args,     \* its arguments and what the environment answered
    calls,    \* ordered log of the ask_request / network calls it made
    result,   \* what the caller got: a returned value or a raised exception
    dirs,     \* directories existing on the local file system
    files,    \* regular files existing on the local file system
    downloads \* number of downloads performed per bundle name

vars == <<op, args, calls, result, dirs, files, downloads>>

(***************************************************************************)
(* Bounds of the model                                                     *)
(***************************************************************************)
MaxAssets  == 2   \* longest asset list handed to tickers / get_candles
MaxCandles == 5   \* most candles in one GetTicks response
MaxBars    == 4   \* largest bar_count
MaxOrders  == 2   \* most records in one getopenorders response
MaxQty     == 2   \* largest order quantity
MaxDate    == 3   \* dates are the days 1..MaxDate
MaxMembers == 2   \* most entries in one archive
MaxDownloads == 2 \* most downloads of one bundle

(***************************************************************************)
(* Python values                                                           *)
(***************************************************************************)
\* None is the empty tuple, a present value v is <<v>>.
None == <<>>
Some(v) == <<v>>
Opt(S) == {None} \cup {Some(v) : v \in S}

\* How a call ends: it returns a value or raises an exception carrying `error`.
Return(v) == [kind |-> "return", exc |-> "", error |-> None, value |-> v]
Raise(e, cause) == [kind |-> "raise", exc |-> e, error |-> cause, value |-> None]

\* What a remote call does: the transport raises, or the remote answers.
TransportErrors == {"URLError", "SocketTimeout"}
Fails(e) == [ok |-> FALSE, exc |-> e, value |-> None]
Answers(v) == [ok |-> TRUE, exc |-> "", value |-> v]
Remote(S) == {Fails(e) : e \in TransportErrors} \cup {Answers(v) : v \in S}

\* One entry of the call log.
Call(name, a) == [call |-> name, args |-> a]
ask_request == Call("ask_request", <<>>)

\* The outcome of an operation: the calls it made and what the caller sees.
Outcome(c, r) == [calls |-> c, result |-> r]

\* Sequences over S of length at most n.
SeqUpTo(S, n) == UNION {[1..k -> S] : k \in 0..n}

\* list(reversed(s))
reversed(s) == [i \in 1..Len(s) |-> s[Len(s) + 1 - i]]

\* s[:k] for k >= 0
Take(s, k) == IF k >= Len(s) THEN s ELSE SubSeq(s, 1, k)

abs(x) == IF x < 0 THEN -x ELSE x

(***************************************************************************)
(* Assets and the symbol lookup of the Exchange base class                 *)
(***************************************************************************)
Assets == {"eth_btc", "neo_btc"}

get_symbol(asset) == IF asset = "eth_btc" THEN "BTC-ETH" ELSE "BTC-NEO"

\* self.assets[exchange_symbol]
assets_lookup(symbol) == IF symbol = "BTC-ETH" THEN "eth_btc" ELSE "neo_btc"

(***************************************************************************)
(* get_balances                                                            *)
(***************************************************************************)
Currencies == {"BTC", "ETH"}

\* str.lower()
lower(s) == CASE s = "BTC" -> "btc" [] s = "ETH" -> "eth" [] s = "NEO" -> "neo"
              [] OTHER -> s

\* A balances response: None (not iterable) or a list of balance records.
BalanceRecords == [Currency : Currencies, Available : 0..1]
BalanceResponses == {None} \cup {Some(l) : l \in SeqUpTo(BalanceRecords, 2)}

\* The dict built by the loop: a later record of a currency overwrites an
\* earlier one.
std_balances(l) ==
    LET last(c) == CHOOSE i \in 1..Len(l) :
                       /\ lower(l[i].Currency) = c
                       /\ \A j \in (i + 1)..Len(l) : lower(l[j].Currency) # c
    IN  [c \in {lower(l[i].Currency) : i \in 1..Len(l)} |-> l[last(c)].Available]

get_balances(r) ==
    LET c == <<ask_request, Call("getbalances", <<>>)>>
    IN  IF ~r.ok THEN Outcome(c, Raise("ExchangeRequestError", Some(r.exc)))
        ELSE IF r.value = None
             THEN Outcome(c, Raise("ExchangeRequestError", Some("None")))
             ELSE Outcome(c, Return(std_balances(r.value[1])))

(***************************************************************************)
(* create_order                                                            *)
(***************************************************************************)
Prices == {1, 2}
Uuids == {"u1", "u2"}
Amounts == {a \in (-MaxQty)..MaxQty : a # 0}

LimitOrder(p) == [type |-> "LimitOrder", limit |-> Some(p), stop |-> None]
StopLimitOrder(p, s) == [type |-> "StopLimitOrder", limit |-> Some(p), stop |-> Some(s)]
MarketOrder == [type |-> "MarketOrder", limit |-> None, stop |-> None]
Styles == {LimitOrder(p) : p \in Prices}
          \cup {StopLimitOrder(p, s) : p \in Prices, s \in Prices}
          \cup {MarketOrder}

\* style.get_limit_price(is_buy), style.get_stop_price(is_buy)
get_limit_price(style, is_buy) == style.limit
get_stop_price(style, is_buy) == style.stop

\* What buylimit / selllimit answer: the result dict carrying the uuid of the
\* new order, or the message of the rejection (upper-case tokens, none of
\* which has 'uuid' as a substring).
Messages == {"INSUFFICIENT_FUNDS", "DUST_TRADE_DISALLOWED_MIN_VALUE_50K_SAT",
             "MARKET_OFFLINE"}
OrderStatusResponses == {[type |-> "dict", uuid |-> u, text |-> ""] : u \in Uuids}
                        \cup {[type |-> "str", uuid |-> "", text |-> m] : m \in Messages}

\* 'uuid' in order_status
has_uuid(order_status) == order_status.type = "dict"

\* pd.to_datetime(s, utc=True): the instant a time string denotes.
to_datetime(s) == [utc |-> s]

\* pd.Timestamp.utcnow()
utcnow == [utc |-> "now"]

ORDER_STATUS == [OPEN |-> "OPEN", FILLED |-> "FILLED", CANCELLED |-> "CANCELLED"]

\* Order(dt, asset, amount, stop, limit, filled, id, commission); a new Order
\* is OPEN.
Order(dt, asset, amount, stop, limit, filled, id, commission) ==
    [dt |-> dt, asset |-> asset, amount |-> amount, stop |-> stop,
     limit |-> limit, filled |-> filled, id |-> id, commission |-> commission,
     status |-> ORDER_STATUS.OPEN]

\* create_order_result with insufficient funds treated as any other rejection.
create_order_result_no_soft_decline(asset, amount, is_buy, style, order_status) ==
    IF order_status.type = "dict"
    THEN Return(Some(Order(utcnow, asset, amount, style.stop, style.limit, 0,
                           order_status.uuid, 0)))
    ELSE IF order_status.text = "DUST_TRADE_DISALLOWED_MIN_VALUE_50K_SAT"
         THEN Return(None)
    ELSE Raise("CreateOrderError", Some(order_status.text))

\* The branch of create_order on the answer of the remote (lines 108-131).
create_order_result(asset, amount, is_buy, style, order_status) ==
    IF has_uuid(order_status)
    THEN Return(Some(Order(utcnow, asset, amount, get_stop_price(style, is_buy),
                           get_limit_price(style, is_buy), 0, order_status.uuid, 0)))
    ELSE IF order_status.text = "INSUFFICIENT_FUNDS" THEN Return(None)
    ELSE IF order_status.text = "DUST_TRADE_DISALLOWED_MIN_VALUE_50K_SAT"
         THEN Return(None)
    ELSE Raise("CreateOrderError", Some(order_status.text))

\* isinstance(style, LimitOrder) or isinstance(style, StopLimitOrder)
is_supported_style(style) == style.type \in {"LimitOrder", "StopLimitOrder"}

create_order(asset, amount, is_buy, style, r) ==
    LET exchange_symbol == get_symbol(asset) IN
    IF is_supported_style(style)
    THEN LET price == get_limit_price(style, is_buy)
             c == <<ask_request,
                    IF is_buy
                    THEN Call("buylimit", <<exchange_symbol, amount, price>>)
                    ELSE Call("selllimit", <<exchange_symbol, abs(amount), price>>)>>
         IN  IF ~r.ok THEN Outcome(c, Raise("ExchangeRequestError", Some(r.exc)))
             ELSE Outcome(c, create_order_result(asset, amount, is_buy, style, r.value))
    ELSE Outcome(<<>>, Raise("InvalidOrderStyle", Some(style.type)))

(***************************************************************************)
(* _create_order, get_open_orders, get_order, cancel_order                 *)
(***************************************************************************)
\* An order record of the remote.  Closed is None or the closing time.
OrderRecords ==
    [OrderUuid : Uuids, Exchange : {"BTC-ETH"}, Opened : {"t0"},
     Quantity : {MaxQty}, QuantityRemaining : 0..1,
     Limit : {1}, CommissionPaid : 0..1, PricePerUnit : {1},
     CancelInitiated : BOOLEAN, Closed : Opt({"t1"})]

\* order_status_of with the closed check before the cancellation check.
order_status_of_closed_first(order_status) ==
    IF order_status.Closed # None THEN "FILLED"
    ELSE IF order_status.CancelInitiated THEN "CANCELLED"
    ELSE "OPEN"

\* The status branch of _create_order (lines 154-159).
order_status_of(order_status) ==
    IF order_status.CancelInitiated THEN ORDER_STATUS.CANCELLED
    ELSE IF order_status.Closed # None THEN ORDER_STATUS.FILLED
    ELSE ORDER_STATUS.OPEN

\* Returns the pair (order, executed_price).
_create_order(order_status) ==
    LET status == order_status_of(order_status)
        date == to_datetime(order_status.Opened)
        amount == order_status.Quantity
        filled == amount - order_status.QuantityRemaining
        order == Order(date, assets_lookup(order_status.Exchange), amount, None,
                       Some(order_status.Limit), filled, order_status.OrderUuid,
                       order_status.CommissionPaid)
        executed_price == order_status.PricePerUnit
    IN  <<[order EXCEPT !.status = status], executed_price>>

\* The list the loop of get_open_orders builds (lines 144-147).
open_orders_list(open_orders) ==
    [i \in 1..Len(open_orders) |-> _create_order(open_orders[i])]

get_open_orders(asset, r) ==
    LET symbol == get_symbol(asset)
        c == <<ask_request, Call("getopenorders", <<symbol>>)>>
    IN  IF ~r.ok THEN Outcome(c, Raise("ExchangeRequestError", Some(r.exc)))
        ELSE Outcome(c, Return(open_orders_list(r.value)))

\* r answers None (no such order) or Some(record).
get_order(order_id, r) ==
    LET c == <<ask_request, Call("getorder", <<order_id>>)>>
    IN  IF ~r.ok THEN Outcome(c, Raise("ExchangeRequestError", Some(r.exc)))
        ELSE IF r.value = None THEN Outcome(c, Raise("OrderNotFound", Some(order_id)))
        ELSE Outcome(c, Return(_create_order(r.value[1])))

\* r answers a status: None when it carries no 'message', else Some(message).
cancel_order(order_id, r) ==
    LET c == <<ask_request, Call("cancel", <<order_id>>)>>
    IN  IF ~r.ok THEN Outcome(c, Raise("ExchangeRequestError", Some(r.exc)))
        ELSE IF r.value # None THEN Outcome(c, Raise("OrderCancelError", r.value))
        ELSE Outcome(c, Return(None))

(***************************************************************************)
(* get_candles                                                             *)
(***************************************************************************)
FrequencyTokens == {"minute", "1m", "5m", "30m", "1h", "daily", "1D", "1w"}

\* The lookup of lines 225-238; None stands for InvalidHistoryFrequencyError.
tick_interval(data_frequency) ==
    CASE data_frequency \in {"minute", "1m"} -> Some("oneMin")
      [] data_frequency = "5m" -> Some("fiveMin")
      [] data_frequency = "30m" -> Some("thirtyMin")
      [] data_frequency = "1h" -> Some("hour")
      [] data_frequency \in {"daily", "1D"} -> Some("day")
      [] OTHER -> None

\* The candle of the remote for the interval ending at time t.
Candle(t) == [O |-> t, H |-> t + 1, L |-> t, C |-> t + 1, V |-> 1, T |-> t]

\* A GetTicks result of n candles, delivered newest first: times n, n-1, .., 1.
NewestFirst(n) == [i \in 1..n |-> Candle(n + 1 - i)]

\* The decoded body of a GetTicks answer: a message, or the candles.
TickData == {[message |-> "INVALID_MARKET", result |-> <<>>]}
            \cup {[message |-> "", result |-> NewestFirst(n)] : n \in 0..MaxCandles}

ohlc_from_candle(candle) ==
    [open |-> candle.O, high |-> candle.H, low |-> candle.L, close |-> candle.C,
     volume |-> candle.V, price |-> candle.C, last_traded |-> to_datetime(candle.T)]

\* candles_of_asset without the reversal of the response.
candles_of_asset_unreversed(candles, bar_count) ==
    IF bar_count = None
    THEN IF candles = <<>> THEN Raise("IndexError", None)
         ELSE Return(ohlc_from_candle(candles[1]))
    ELSE LET head == Take(candles, bar_count[1])
         IN  Return([j \in 1..Len(head) |-> ohlc_from_candle(head[j])])

\* Lines 275-284: what is stored in ohlc_map for one asset.  ordered_candles[0]
\* of an empty list is an IndexError.
candles_of_asset(candles, bar_count) ==
    LET ordered_candles == reversed(candles) IN
    IF bar_count = None
    THEN IF ordered_candles = <<>> THEN Raise("IndexError", None)
         ELSE Return(ohlc_from_candle(ordered_candles[1]))
    ELSE LET head == Take(ordered_candles, bar_count[1])
         IN  Return([j \in 1..Len(head) |-> ohlc_from_candle(head[j])])

\* The calls made for one asset of the loop, before its answer is used.
candles_calls(asset, frequency) ==
    <<Call("urlopen", <<get_symbol(asset), frequency>>)>>

\* The loop of lines 243-284 from asset number i on; c and ohlc_map are the
\* calls made and the map built so far.
RECURSIVE candles_loop(_, _, _, _, _, _, _)
candles_loop(asset_list, frequency, bar_count, rs, i, c, ohlc_map) ==
    IF i > Len(asset_list) THEN Outcome(c, Return(ohlc_map))
    ELSE LET c2 == c \o candles_calls(asset_list[i], frequency)
             r == rs[i]
         IN  IF ~r.ok THEN Outcome(c2, Raise("ExchangeRequestError", Some(r.exc)))
             ELSE IF r.value.message # ""
                  THEN Outcome(c2, Raise("ExchangeRequestError", Some(r.value.message)))
             ELSE LET v == candles_of_asset(r.value.result, bar_count)
                  IN  IF v.kind = "raise" THEN Outcome(c2, v)
                      ELSE candles_loop(asset_list, frequency, bar_count, rs, i + 1,
                                        c2, (asset_list[i] :> v.value) @@ ohlc_map)

\* single: assets is one TradingPair (asset_list[1]) and not a list.
get_candles(data_frequency, single, asset_list, bar_count, rs) ==
    LET frequency == tick_interval(data_frequency) IN
    IF frequency = None
    THEN Outcome(<<>>, Raise("InvalidHistoryFrequencyError", Some(data_frequency)))
    ELSE LET o == candles_loop(asset_list, frequency[1], bar_count, rs, 1, <<>>, <<>>)
         IN  IF o.result.kind = "return" /\ single
             THEN Outcome(o.calls, Return(o.result.value[asset_list[1]]))
             ELSE o

(***************************************************************************)
(* tickers                                                                 *)
(***************************************************************************)
Tickers == [Bid : {1}, Ask : {2}, Last : 1..2]

tickers_calls(asset) == <<ask_request, Call("getticker", <<get_symbol(asset)>>)>>

RECURSIVE tickers_loop(_, _, _, _, _)
tickers_loop(asset_list, rs, i, c, ticks) ==
    IF i > Len(asset_list) THEN Outcome(c, Return(ticks))
    ELSE LET c2 == c \o tickers_calls(asset_list[i])
             r == rs[i]
         IN  IF ~r.ok THEN Outcome(c2, Raise("ExchangeRequestError", Some(r.exc)))
             ELSE tickers_loop(asset_list, rs, i + 1, c2,
                      (asset_list[i] :> [timestamp |-> utcnow, bid |-> r.value.Bid,
                                         ask |-> r.value.Ask,
                                         last_price |-> r.value.Last]) @@ ticks)

tickers(asset_list, rs) == tickers_loop(asset_list, rs, 1, <<>>, <<>>)

(***************************************************************************)
(* generate_symbols_json                                                   *)
(***************************************************************************)
Markets == {[MarketName |-> "BTC-ETH", MarketCurrency |-> "ETH",
             BaseCurrency |-> "BTC", Created |-> "2015-08-14T09:02:24"],
            [MarketName |-> "BTC-NEO", MarketCurrency |-> "NEO",
             BaseCurrency |-> "BTC", Created |-> "2017-08-02T11:32:01"]}

\* The cached catalog: per exchange symbol, the keys the cache holds.
CachedCatalogs ==
    {<<>>,
     ("BTC-ETH" :> [end_daily |-> Some("2017-10-01"), end_minute |-> None]),
     ("BTC-ETH" :> [end_daily |-> Some("2017-10-01"), end_minute |-> Some("2017-10-02")])}

\* to_datetime(created).strftime("%Y-%m-%d")
strftime_date(created) ==
    IF created = "2015-08-14T09:02:24" THEN "2015-08-14" ELSE "2017-08-02"

\* cached_symbols[exchange_symbol][key], 'N/A' on KeyError.
cached_end(cached_symbols, exchange_symbol, key) ==
    IF exchange_symbol \in DOMAIN cached_symbols
       /\ cached_symbols[exchange_symbol][key] # None
    THEN cached_symbols[exchange_symbol][key][1]
    ELSE "N/A"

symbol_map_of(markets, cached_symbols) ==
    [name \in {markets[i].MarketName : i \in 1..Len(markets)} |->
        LET market == markets[CHOOSE i \in 1..Len(markets) :
                                  /\ markets[i].MarketName = name
                                  /\ \A j \in (i + 1)..Len(markets) :
                                         markets[j].MarketName # name]
        IN  [symbol |-> <<lower(market.MarketCurrency), "_", lower(market.BaseCurrency)>>,
             start_date |-> strftime_date(market.Created),
             end_daily |-> cached_end(cached_symbols, name, "end_daily"),
             end_minute |-> cached_end(cached_symbols, name, "end_minute")]]

\* rd: the download of the cached catalog; rm: the market listing.  Neither
\* call is inside a try block.  The returned value is the map dumped to file.
generate_symbols_json(rd, rm) ==
    LET c1 == <<Call("download_exchange_symbols", <<"bittrex">>)>>
        c2 == Append(c1, Call("getmarkets", <<>>))
    IN  IF ~rd.ok THEN Outcome(c1, Raise(rd.exc, None))
        ELSE IF ~rm.ok THEN Outcome(c2, Raise(rm.exc, None))
        ELSE Outcome(c2, Return(symbol_map_of(rm.value, rd.value)))

(***************************************************************************)
(* get_orderbook                                                           *)
(***************************************************************************)
OrderTypes == {"all", "bid", "ask", "buy"}

\* Lines 364-371; None stands for ValueError('invalid type').
book_type(order_type) ==
    CASE order_type = "all" -> Some("both")
      [] order_type = "bid" -> Some("buy")
      [] order_type = "ask" -> Some("sell")
      [] OTHER -> None

BookEntries == [Rate : 1..2, Quantity : {1}]

\* The book the remote answers for a type: a dict keyed by 'buy' / 'sell'.
BookData(type) ==
    LET keys == CASE type = "both" -> {"buy", "sell"}
                  [] type = "buy" -> {"buy"}
                  [] OTHER -> {"sell"}
    IN  [keys -> SeqUpTo(BookEntries, 1)]

book_side(exchange_type) == IF exchange_type = "buy" THEN "bids" ELSE "asks"

orderbook_of(data) ==
    [side \in {book_side(k) : k \in DOMAIN data} |->
        LET entries == data[CHOOSE k \in DOMAIN data : book_side(k) = side]
        IN  [i \in 1..Len(entries) |->
                [rate |-> entries[i].Rate, quantity |-> entries[i].Quantity]]]

get_orderbook(asset, order_type, r) ==
    LET type == book_type(order_type) IN
    IF type = None THEN Outcome(<<>>, Raise("ValueError", Some("invalid type")))
    ELSE LET c == <<Call("getorderbook", <<get_symbol(asset), type[1], 100>>)>>
         IN  IF ~r.ok THEN Outcome(c, Raise(r.exc, None))
             ELSE Outcome(c, Return(orderbook_of(r.value)))

(***************************************************************************)
(* The gateway as a state machine: one action per public operation         *)
(***************************************************************************)
\* The gateway serves one caller at a time: an operation starts when none is
\* running (op = "") and Done hands its outcome to the caller.
\* The calls of the log that go over the network.
NetworkCalls == {"getbalances", "buylimit", "selllimit", "getopenorders",
                 "getorder", "cancel", "urlopen", "getticker", "getmarkets",
                 "download_exchange_symbols", "getorderbook"}

\* The operation `name` runs on inputs `in`, the environment answers its
\* network calls with `remotes` (in the order of the calls), and it ends as o.
Ran(name, in, remotes, o) ==
    /\ op' = name
    /\ args' = [in |-> in, remotes |-> remotes]
    /\ calls' = o.calls
    /\ result' = o.result
    /\ UNCHANGED <<dirs, files, downloads>>

AssetLists == SeqUpTo(Assets, MaxAssets)
BarCounts == Opt(0..MaxBars)

GetBalances ==
    /\ op = ""
    /\ \E r \in Remote(BalanceResponses) :
           Ran("get_balances", <<>>, <<r>>, get_balances(r))

CreateOrder ==
    /\ op = ""
    /\ \E asset \in Assets, amount \in Amounts, is_buy \in BOOLEAN, style \in Styles,
          r \in Remote(OrderStatusResponses) :
           Ran("create_order",
               [asset |-> asset, amount |-> amount, is_buy |-> is_buy, style |-> style],
               <<r>>, create_order(asset, amount, is_buy, style, r))

GetOpenOrders ==
    /\ op = ""
    /\ \E asset \in Assets, r \in Remote(SeqUpTo(OrderRecords, MaxOrders)) :
           Ran("get_open_orders", [asset |-> asset], <<r>>, get_open_orders(asset, r))

GetOrder ==
    /\ op = ""
    /\ \E order_id \in Uuids, r \in Remote(Opt(OrderRecords)) :
           Ran("get_order", [order_id |-> order_id], <<r>>, get_order(order_id, r))

CancelOrder ==
    /\ op = ""
    /\ \E order_id \in Uuids, r \in Remote(Opt({"ORDER_NOT_OPEN"})) :
           Ran("cancel_order", [order_id |-> order_id], <<r>>, cancel_order(order_id, r))

GetCandles ==
    /\ op = ""
    /\ \E data_frequency \in FrequencyTokens, single \in BOOLEAN,
          asset_list \in AssetLists, bar_count \in BarCounts :
           /\ single => Len(asset_list) = 1
           /\ \E rs \in [1..Len(asset_list) -> Remote(TickData)] :
                  Ran("get_candles",
                      [data_frequency |-> data_frequency, single |-> single,
                       assets |-> asset_list, bar_count |-> bar_count],
                      rs, get_candles(data_frequency, single, asset_list, bar_count, rs))

GetTickers ==
    /\ op = ""
    /\ \E asset_list \in AssetLists :
           \E rs \in [1..Len(asset_list) -> Remote(Tickers)] :
               Ran("tickers", [assets |-> asset_list], rs, tickers(asset_list, rs))

GenerateSymbolsJson ==
    /\ op = ""
    /\ \E rd \in Remote(CachedCatalogs), rm \in Remote(SeqUpTo(Markets, 2)) :
           Ran("generate_symbols_json", <<>>, <<rd, rm>>, generate_symbols_json(rd, rm))

GetOrderbook ==
    /\ op = ""
    /\ \E asset \in Assets, order_type \in OrderTypes :
           \E r \in Remote(IF book_type(order_type) = None THEN {<<>>}
                           ELSE BookData(book_type(order_type)[1])) :
               Ran("get_orderbook", [asset |-> asset, order_type |-> order_type],
                   <<r>>, get_orderbook(asset, order_type, r))

\* The caller has taken the outcome of the operation; the next one may run.
Done ==
    /\ op # ""
    /\ op' = ""
    /\ args' = [in |-> <<>>, remotes |-> <<>>]
    /\ calls' = <<>>
    /\ result' = Return(None)
    /\ UNCHANGED <<dirs, files, downloads>>

\* Nothing has run yet and the local file system holds no bundle.
Init ==
    /\ op = ""
    /\ args = [in |-> <<>>, remotes |-> <<>>]
    /\ calls = <<>>
    /\ result = Return(None)
    /\ dirs = {}
    /\ files = {}
    /\ downloads = <<>>

GatewayNext ==
    \/ GetBalances
    \/ CreateOrder
    \/ GetOpenOrders
    \/ GetOrder
    \/ CancelOrder
    \/ GetCandles
    \/ GetTickers
    \/ GenerateSymbolsJson
    \/ GetOrderbook
    \/ Done

SpecGateway == Init /\ [][GatewayNext]_vars

(***************************************************************************)
(* get_adj_dates                                                           *)
(***************************************************************************)
Dates == 1..MaxDate

\* The availability window of an asset: data cannot end before trading starts.
PairWindows ==
    {a \in [start_date : Dates, end_daily : Opt(Dates), end_minute : Opt(Dates)] :
        /\ a.end_daily # None => a.start_date <= a.end_daily[1]
        /\ a.end_minute # None => a.start_date <= a.end_minute[1]}

\* asset.end_minute if data_frequency == 'minute' else asset.end_daily
end_asset(asset, data_frequency) ==
    IF data_frequency = "minute" THEN asset.end_minute ELSE asset.end_daily

\* The loop of lines 137-145 over the first n assets: <<earliest_trade, last_entry>>.
RECURSIVE trade_bounds(_, _, _)
trade_bounds(assets, data_frequency, n) ==
    IF n = 0 THEN <<None, None>>
    ELSE LET prev == trade_bounds(assets, data_frequency, n - 1)
             asset == assets[n]
             e == end_asset(asset, data_frequency)
             earliest_trade ==
                 IF prev[1] = None \/ prev[1][1] > asset.start_date
                 THEN Some(asset.start_date) ELSE prev[1]
             last_entry ==
                 IF e # None /\ (prev[2] = None \/ e[1] > prev[2][1])
                 THEN e ELSE prev[2]
         IN  <<earliest_trade, last_entry>>

\* Comparing None with a date is a TypeError; reading the loop variable `asset`
\* after a loop over no asset is an UnboundLocalError.
get_adj_dates(start, end, assets, data_frequency) ==
    LET b == trade_bounds(assets, data_frequency, Len(assets))
        earliest_trade == b[1]
        last_entry == b[2]
    IN  IF start # None /\ earliest_trade = None THEN Raise("TypeError", None)
        ELSE
        LET start2 == IF start = None \/ earliest_trade[1] > start[1]
                      THEN earliest_trade ELSE start
            end2 == IF end = None \/ (last_entry # None /\ end[1] > last_entry[1])
                    THEN last_entry ELSE end
        IN  IF end2 # None /\ start2 = None THEN Raise("TypeError", None)
            ELSE IF end2 = None \/ start2[1] >= end2[1]
                 THEN IF assets = <<>> THEN Raise("UnboundLocalError", None)
                      ELSE Raise("NoDataAvailableOnExchange", Some(data_frequency))
                 ELSE Return(<<start2[1], end2[1]>>)

DateInputs ==
    [start : Opt(Dates), end : Opt(Dates), assets : SeqUpTo(PairWindows, MaxAssets),
     data_frequency : {"minute", "daily"}]

\* A caller is about to resolve a window for some inputs.
DatesInit ==
    /\ op = ""
    /\ args \in [in : DateInputs, remotes : {<<>>}]
    /\ calls = <<>>
    /\ result = Return(None)
    /\ dirs = {}
    /\ files = {}
    /\ downloads = <<>>

GetAdjDates ==
    /\ op = ""
    /\ op' = "get_adj_dates"
    /\ result' = get_adj_dates(args.in.start, args.in.end, args.in.assets,
                               args.in.data_frequency)
    /\ UNCHANGED <<args, calls, dirs, files, downloads>>

DatesNext == GetAdjDates

SpecDates == DatesInit /\ [][DatesNext]_vars

(***************************************************************************)
(* get_bcolz_chunk                                                         *)
(*                                                                         *)
(* A path is the sequence of its characters.                               *)
(***************************************************************************)
\* The components of a path: the pieces between slashes, empty ones dropped.
RECURSIVE Split(_)
Split(s) ==
    IF s = <<>> THEN <<>>
    ELSE IF s[1] = "/" THEN Split(Tail(s))
    ELSE LET n == IF \E i \in 1..Len(s) : s[i] = "/"
                  THEN (CHOOSE i \in 1..Len(s) :
                            /\ s[i] = "/"
                            /\ \A j \in 1..(i - 1) : s[j] # "/") - 1
                  ELSE Len(s)
         IN  <<SubSeq(s, 1, n)>> \o Split(SubSeq(s, n + 1, Len(s)))

\* The absolute path of a sequence of components.
RECURSIVE Render(_)
Render(comps) ==
    IF comps = <<>> THEN <<"/">>
    ELSE IF Len(comps) = 1 THEN <<"/">> \o comps[1]
    ELSE Render(SubSeq(comps, 1, Len(comps) - 1)) \o <<"/">> \o comps[Len(comps)]

\* Resolving '.' and '..' in the components of an absolute path; '..' at the
\* root stays at the root.
RECURSIVE Norm(_)
Norm(comps) ==
    IF comps = <<>> THEN <<>>
    ELSE LET head == Norm(SubSeq(comps, 1, Len(comps) - 1))
             c == comps[Len(comps)]
         IN  IF c = <<".">> THEN head
             ELSE IF c = <<".", ".">>
                  THEN (IF head = <<>> THEN <<>> ELSE SubSeq(head, 1, Len(head) - 1))
                  ELSE Append(head, c)

\* os.path.join(a, b)
join(a, b) ==
    IF b # <<>> /\ b[1] = "/" THEN b
    ELSE IF a = <<>> \/ a[Len(a)] = "/" THEN a \o b
    ELSE a \o <<"/">> \o b

\* The working directory of the process.
getcwd == <<"/", "w">>

\* os.path.normpath of an absolute path
normpath(p) == Render(Norm(Split(p)))

\* os.path.abspath(p)
abspath(p) == normpath(join(getcwd, p))

\* os.path.commonprefix([a, b]): the longest common prefix, character by
\* character.
commonprefix(a, b) ==
    LET n == IF Len(a) < Len(b) THEN Len(a) ELSE Len(b)
        k == IF \E i \in 1..n : a[i] # b[i]
             THEN (CHOOSE i \in 1..n : a[i] # b[i] /\ \A j \in 1..(i - 1) : a[j] = b[j]) - 1
             ELSE n
    IN  SubSeq(a, 1, k)

is_within_directory(directory, target) ==
    LET abs_directory == abspath(directory)
        abs_target == abspath(target)
        prefix == commonprefix(abs_directory, abs_target)
    IN  prefix = abs_directory

\* get_exchange_bundles_folder(exchange_name)
root == <<"/", "r">>

\* The bundle names '{exchange}-{frequency}-{symbol}-{period}' of two periods.
BundleNames == {<<"b">>, <<"b", "c">>}

\* Names an archive may give its entries: f, ../../e, ../bc/f, /e
MemberNames == {<<"f">>,
                <<".", ".", "/", ".", ".", "/", "e">>,
                <<".", ".", "/", "b", "c", "/", "f">>,
                <<"/", "e">>}

Archives == SeqUpTo(MemberNames, MaxMembers)

\* The loop of safe_extract: every member passes the check.
members_safe(path, members) ==
    \A i \in 1..Len(members) : is_within_directory(path, join(path, members[i]))

\* The directories makedirs creates on the way to the file `target`, walking
\* the components of its directory part from the root, '..' going up.
RECURSIVE upperdirs(_)
upperdirs(comps) ==
    IF Len(comps) <= 1 THEN {}
    ELSE LET d == SubSeq(comps, 1, Len(comps) - 1)
         IN  upperdirs(d) \cup {Render(Norm(d))}

\* tar.extractall(path) of the first n members: the directories and files
\* the file system holds afterwards.
RECURSIVE extractall(_, _, _, _, _)
extractall(path, members, n, d, f) ==
    IF n = 0 THEN [dirs |-> d, files |-> f]
    ELSE LET fs == extractall(path, members, n - 1, d, f)
             target == abspath(join(path, members[n]))
             comps == Split(join(path, members[n]))
         IN  [dirs |-> fs.dirs \cup upperdirs(comps), files |-> fs.files \cup {target}]

\* r: what the download gives (the transport raises, bytes that are no tar
\* archive (None), or an archive); written: the number of members extractall
\* writes before the file system refuses one (all of them: no refusal).
get_bcolz_chunk(name, r, written, d, f) ==
    LET path == join(root, name)
        same == [dirs |-> d, files |-> f]
    IN  IF path \in d THEN [result |-> Return(path), fs |-> same, downloaded |-> FALSE]
        ELSE IF ~r.ok THEN [result |-> Raise(r.exc, None), fs |-> same, downloaded |-> TRUE]
        ELSE IF r.value = None
             THEN [result |-> Raise("ReadError", None), fs |-> same, downloaded |-> TRUE]
        ELSE LET members == r.value[1] IN
             IF ~members_safe(path, members)
             THEN [result |-> Raise("Exception", Some("Attempted Path Traversal in Tar File")),
                   fs |-> same, downloaded |-> TRUE]
             ELSE LET fs == extractall(path, members, written, d, f)
                  IN  IF written < Len(members)
                      THEN [result |-> Raise("OSError", None), fs |-> fs, downloaded |-> TRUE]
                      ELSE [result |-> Return(path), fs |-> fs, downloaded |-> TRUE]

\* The bundle folder exists and is empty; nothing was downloaded.
ArchiveInit ==
    /\ op = ""
    /\ args = [in |-> <<>>, remotes |-> <<>>]
    /\ calls = <<>>
    /\ result = Return(None)
    /\ dirs = {<<"/">>, root}
    /\ files = {}
    /\ downloads = [n \in BundleNames |-> 0]

GetBcolzChunk ==
    /\ op = ""
    /\ \E name \in BundleNames, r \in Remote(Opt(Archives)), written \in 0..MaxMembers :
           LET o == get_bcolz_chunk(name, r, written, dirs, files) IN
           /\ r.ok /\ r.value # None => written <= Len(r.value[1])
           /\ o.downloaded => downloads[name] < MaxDownloads
           /\ op' = "get_bcolz_chunk"
           /\ args' = [in |-> [name |-> name, written |-> written,
                               dirs |-> dirs, files |-> files],
                       remotes |-> <<r>>]
           /\ calls' = IF o.downloaded
                       THEN <<Call("download_without_progress", <<name>>)>> ELSE <<>>
           /\ result' = o.result
           /\ dirs' = o.fs.dirs
           /\ files' = o.fs.files
           /\ downloads' = IF o.downloaded
                           THEN [downloads EXCEPT ![name] = @ + 1] ELSE downloads

ArchiveNext ==
    \/ GetBcolzChunk
    \/ Done

SpecArchive == ArchiveInit /\ [][ArchiveNext]_vars

(***************************************************************************)
(* Notions the claims are stated with                                      *)
(***************************************************************************)
\* The number of network calls the operation has made.
NetworkCallCount == Cardinality({i \in DOMAIN calls : calls[i].call \in NetworkCalls})

\* The smaller of two numbers.
Min(a, b) == IF a < b THEN a ELSE b

\* The status the derivation rule gives a remote order record.
RuleStatus(rec) ==
    CASE rec.CancelInitiated /\ rec.Closed # None -> "CANCELLED"
      [] rec.CancelInitiated /\ rec.Closed = None -> "CANCELLED"
      [] ~rec.CancelInitiated /\ rec.Closed # None -> "FILLED"
      [] ~rec.CancelInitiated /\ rec.Closed = None -> "OPEN"

\* The fields of an Order.
OrderFields == {"dt", "asset", "amount", "stop", "limit", "filled", "id",
                "commission", "status"}

\* Minimum start_date over a non-empty asset list.
EarliestTrade(assets) ==
    CHOOSE d \in Dates : /\ \E i \in DOMAIN assets : assets[i].start_date = d
                         /\ \A i \in DOMAIN assets : assets[i].start_date >= d

\* The end values present for the frequency, and their maximum (None if none).
EndValues(assets, data_frequency) ==
    {e \in Dates : \E i \in DOMAIN assets :
        (IF data_frequency = "minute" THEN assets[i].end_minute
         ELSE assets[i].end_daily) = Some(e)}
LastEntry(assets, data_frequency) ==
    LET E == EndValues(assets, data_frequency)
    IN  IF E = {} THEN None ELSE Some(CHOOSE e \in E : \A x \in E : x <= e)

\* target resolves to a path strictly below directory.
IsDescendant(directory, target) ==
    LET dc == Norm(Split(directory))
        tc == Norm(Split(target))
    IN  Len(tc) > Len(dc) /\ SubSeq(tc, 1, Len(dc)) = dc

(***************************************************************************)
(* Claims                                                                  *)
(***************************************************************************)
\* C1: every remote network call of every gateway operation is immediately
\* preceded, in the operation's call log, by an ask_request made for it.
\* Fails: get_candles, get_orderbook and generate_symbols_json never acquire.
C1_AcquireBeforeEveryRemoteCall ==
    \A i \in DOMAIN calls :
        calls[i].call \in NetworkCalls => i > 1 /\ calls[i - 1] = ask_request

\* C2: whenever the remote call an operation performs fails (the transport
\* raises), the operation fails with ExchangeRequestError carrying that cause.
\* Fails: get_orderbook and generate_symbols_json let the raw error through.
C2_RemoteFailuresWrapped ==
    LET n == NetworkCallCount IN
    (op # "" /\ n > 0 /\ ~args.remotes[n].ok)
        => result = Raise("ExchangeRequestError", Some(args.remotes[n].exc))

\* C3: when a downloaded archive has an entry whose resolved destination is
\* not a descendant of destination_dir, extraction is rejected with an error
\* and the file system is left as it was.
\* Fails: an entry resolving into a sibling directory whose name starts with
\* the destination's name passes the character-wise prefix check.
C3_EscapingEntryRejected ==
    (/\ op = "get_bcolz_chunk"
     /\ calls # <<>>
     /\ args.remotes[1].ok
     /\ args.remotes[1].value # None
     /\ \E i \in DOMAIN args.remotes[1].value[1] :
            ~IsDescendant(join(root, args.in.name),
                          join(join(root, args.in.name), args.remotes[1].value[1][i])))
        => /\ result.kind = "raise"
           /\ files = args.in.files
           /\ dirs = args.in.dirs

\* C4: get_adj_dates fails with NoDataAvailableOnExchange whenever last_entry
\* is absent, whatever the requested bounds, and whenever the effective start
\* is not before the effective end; in every other case it returns a window.
\* (Stated for the non-empty asset lists, where earliest_trade is defined.)
\* Fails: with last_entry absent and a requested end after the start it
\* returns the window up to the requested end.
C4_NoDataWhenLastEntryAbsent ==
    (op = "get_adj_dates" /\ args.in.assets # <<>>) =>
        LET in == args.in
            last_entry == LastEntry(in.assets, in.data_frequency)
            failed == result = Raise("NoDataAvailableOnExchange", Some(in.data_frequency))
        IN  IF last_entry = None THEN failed
            ELSE LET earliest == EarliestTrade(in.assets)
                     eff_start == IF in.start # None /\ in.start[1] >= earliest
                                  THEN in.start[1] ELSE earliest
                     eff_end == IF in.end # None /\ in.end[1] <= last_entry[1]
                                THEN in.end[1] ELSE last_entry[1]
                 IN  IF eff_start >= eff_end THEN failed
                     ELSE result.kind = "return"

\* C5: a window (start, end) returned for a non-empty asset list has
\* start = requested_start if provided and >= earliest_trade, else
\* earliest_trade; end = requested_end if provided and <= last_entry, else
\* last_entry; and earliest_trade <= start < end <= last_entry.
\* Fails with C4: a window is returned although last_entry is absent.
C5_WindowWithinAvailability ==
    (op = "get_adj_dates" /\ result.kind = "return" /\ args.in.assets # <<>>) =>
        LET in == args.in
            earliest == EarliestTrade(in.assets)
            last_entry == LastEntry(in.assets, in.data_frequency)
            start == result.value[1]
            end == result.value[2]
        IN  /\ start = (IF in.start # None /\ in.start[1] >= earliest
                        THEN in.start[1] ELSE earliest)
            /\ last_entry # None
            /\ end = (IF in.end # None /\ in.end[1] <= last_entry[1]
                      THEN in.end[1] ELSE last_entry[1])
            /\ earliest <= start /\ start < end /\ end <= last_entry[1]

\* The request create_order sends for a limit price, as the claim has it.
LimitRequest(in) ==
    IF in.is_buy
    THEN Call("buylimit", <<get_symbol(in.asset), in.amount, in.style.limit>>)
    ELSE Call("selllimit", <<get_symbol(in.asset), abs(in.amount), in.style.limit>>)

\* The four outcomes of create_order the claim lists, for the inputs `in`
\* and the answer r of the remote.
C6_Listed(in, r) ==
    \/ /\ in.style.type \notin {"LimitOrder", "StopLimitOrder"}
       /\ result.kind = "raise" /\ result.exc = "InvalidOrderStyle"
       /\ calls = <<>>
    \/ /\ in.style.type \in {"LimitOrder", "StopLimitOrder"}
       /\ calls = <<ask_request, LimitRequest(in)>>
       /\ r.ok /\ r.value.type = "dict"
       /\ result.kind = "return" /\ result.value # None
       /\ result.value[1].id = r.value.uuid
       /\ result.value[1].asset = in.asset
       /\ result.value[1].amount = in.amount
    \/ /\ in.style.type \in {"LimitOrder", "StopLimitOrder"}
       /\ calls = <<ask_request, LimitRequest(in)>>
       /\ r.ok /\ r.value.type = "str"
       /\ r.value.text \in {"INSUFFICIENT_FUNDS",
                            "DUST_TRADE_DISALLOWED_MIN_VALUE_50K_SAT"}
       /\ result = Return(None)
    \/ /\ in.style.type \in {"LimitOrder", "StopLimitOrder"}
       /\ calls = <<ask_request, LimitRequest(in)>>
       /\ r.ok /\ r.value.type = "str"
       /\ r.value.text \notin {"INSUFFICIENT_FUNDS",
                               "DUST_TRADE_DISALLOWED_MIN_VALUE_50K_SAT"}
       /\ result.kind = "raise" /\ result.exc = "CreateOrderError"

\* C6 as stated: every outcome of create_order is one of the four listed
\* (unsupported style, accepted, soft decline, other rejection).
\* Fails: when the transport raises, the outcome is ExchangeRequestError.
C6_FourOutcomesOnly ==
    op = "create_order" => C6_Listed(args.in, args.remotes[1])

\* C6 amended: every outcome of create_order is one of the four listed or,
\* fifth, the remote call itself raised and the call fails with
\* ExchangeRequestError carrying the cause; a stop-limit style is accepted
\* and makes the calls a limit style of the same limit price makes.
C6_Outcomes ==
    op = "create_order" =>
        LET in == args.in
            r == args.remotes[1]
        IN  /\ \/ C6_Listed(in, r)
               \/ /\ in.style.type \in {"LimitOrder", "StopLimitOrder"}
                  /\ calls = <<ask_request, LimitRequest(in)>>
                  /\ ~r.ok
                  /\ result = Raise("ExchangeRequestError", Some(r.exc))
            /\ in.style.type = "StopLimitOrder" =>
                   /\ calls # <<>>
                   /\ calls = create_order(in.asset, in.amount, in.is_buy,
                                           LimitOrder(in.style.limit[1]), r).calls

\* A stop-limit sell is softly declined for insufficient funds.
C6_Witness ==
    /\ op = "create_order"
    /\ args.in.style.type = "StopLimitOrder"
    /\ ~args.in.is_buy
    /\ args.remotes[1].ok
    /\ args.remotes[1].value.text = "INSUFFICIENT_FUNDS"
    /\ result = Return(None)
    /\ Len(calls) = 2

\* The orders an operation returned, with the remote records they come from:
\* get_order returns one pair, get_open_orders a list of pairs.
ReturnedPairs ==
    IF op = "get_order" /\ result.kind = "return"
    THEN {<<result.value, args.remotes[1].value[1]>>}
    ELSE IF op = "get_open_orders" /\ result.kind = "return"
    THEN {<<result.value[i], args.remotes[1].value[i]>> : i \in DOMAIN result.value}
    ELSE {}

\* C7: every order get_order or get_open_orders reconstructs has the status
\* of the rule: CANCELLED if CancelInitiated (whatever Closed), else FILLED if
\* Closed is present, else OPEN.
C7_StatusDerivation ==
    /\ \A p \in ReturnedPairs : p[1][1].status = RuleStatus(p[2])
    /\ (op = "get_open_orders" /\ result.kind = "return")
           => Len(result.value) = Len(args.remotes[1].value)

\* get_open_orders returned an order that is both cancel-initiated and closed.
C7_Witness ==
    /\ op = "get_open_orders"
    /\ result.kind = "return"
    /\ \E i \in DOMAIN result.value :
           /\ args.remotes[1].value[i].CancelInitiated
           /\ args.remotes[1].value[i].Closed # None
           /\ result.value[i][1].status = "CANCELLED"

\* A single-asset get_candles with a bar_count whose remote answered candles.
CandlesAnswered ==
    /\ op = "get_candles"
    /\ args.in.single
    /\ tick_interval(args.in.data_frequency) # None
    /\ args.remotes[1].ok
    /\ args.remotes[1].value.message = ""

\* C8: with bar_count = k and a response of n candles newest first, the
\* result has min(k, n) candles and its j-th candle is the j-th oldest of the
\* response, so the result is in strictly ascending time order.
C8_OldestFirstBars ==
    (CandlesAnswered /\ args.in.bar_count # None) =>
        LET resp == args.remotes[1].value.result
            n == Len(resp)
            k == args.in.bar_count[1]
        IN  /\ result.kind = "return"
            /\ Len(result.value) = Min(k, n)
            /\ \A j \in DOMAIN result.value :
                   \E i \in 1..n :
                       /\ Cardinality({h \in 1..n : resp[h].T < resp[i].T}) = j - 1
                       /\ result.value[j].last_traded = to_datetime(resp[i].T)
                       /\ result.value[j].close = resp[i].C
            /\ \A j \in DOMAIN result.value : \A h \in DOMAIN result.value :
                   j < h => result.value[j].last_traded.utc < result.value[h].last_traded.utc

\* Five candles were answered, three bars asked for and three returned, the
\* first of them the oldest of the response.
C8_Witness ==
    /\ CandlesAnswered
    /\ args.in.bar_count = Some(3)
    /\ Len(args.remotes[1].value.result) = 5
    /\ result.kind = "return"
    /\ Len(result.value) = 3
    /\ result.value[1].last_traded = to_datetime(args.remotes[1].value.result[5].T)

\* C9: with bar_count absent and a non-empty response newest first, the
\* result is the one candle with the greatest timestamp of the response.
\* Fails: the code takes the first candle of the reversed list, the oldest.
C9_MostRecentCandle ==
    (/\ CandlesAnswered
     /\ args.in.bar_count = None
     /\ args.remotes[1].value.result # <<>>) =>
        LET resp == args.remotes[1].value.result
        IN  /\ result.kind = "return"
            /\ \A i \in DOMAIN resp : resp[i].T <= result.value.last_traded.utc

\* C10: get_open_orders returns one Order per record of the remote, in the
\* order of the remote, each an Order (not a pair) with the id, amount, filled
\* quantity, commission and derived status of its record.
\* Fails: every element is the pair (order, executed_price).
C10_OpenOrdersAreOrders ==
    (op = "get_open_orders" /\ result.kind = "return") =>
        LET recs == args.remotes[1].value
        IN  /\ Len(result.value) = Len(recs)
            /\ \A i \in DOMAIN result.value :
                   /\ DOMAIN result.value[i] = OrderFields
                   /\ result.value[i].id = recs[i].OrderUuid
                   /\ result.value[i].amount = recs[i].Quantity
                   /\ result.value[i].filled = recs[i].Quantity - recs[i].QuantityRemaining
                   /\ result.value[i].commission = recs[i].CommissionPaid
                   /\ result.value[i].status = RuleStatus(recs[i])

\* C11: a call that finds destination_dir present downloads nothing, extracts
\* nothing, changes no file and returns the path; and a destination_dir comes
\* into being only by a call that succeeded after extracting its whole
\* archive, so that a directory later calls skip always holds a completely
\* extracted archive (a call that failed leaves none behind).
\* Fails: extractall writes into destination_dir itself, so a call whose
\* extraction fails after the first entry leaves the directory behind.
C11_SkipOnlyCompleteBundles ==
    op = "get_bcolz_chunk" =>
        LET path == join(root, args.in.name)
            existed == path \in args.in.dirs
        IN  /\ existed => /\ calls = <<>>
                          /\ files = args.in.files
                          /\ dirs = args.in.dirs
                          /\ result = Return(path)
            /\ (~existed /\ path \in dirs) =>
                   /\ result = Return(path)
                   /\ args.remotes[1].ok
                   /\ args.remotes[1].value # None
                   /\ args.in.written = Len(args.remotes[1].value[1])

====
